---- MODULE Spec2Model ----
(***************************************************************************)
(* Model of src/src/main.rs: a software fallback clock (SoftClock) ticked  *)
(* by a background thread behind a mutex (ClockHandle), and get_date_time, *)
(* which polls for readiness, fetches three remote samples one after the   *)
(* other, reconciles them and falls back to the software clock.            *)
(***************************************************************************)
EXTENDS Integers, Sequences, FiniteSets, TLC

VARIABLES clock,     \* the SoftClock value inside Arc<Mutex<SoftClock>>
          seed,      \* the value from_system_time() stored at start()
          ticks,     \* number of complete tick() calls of the ticker thread
          ready,     \* the AtomicBool `ready`
          lock,      \* holder of the mutex: "free", "ticker" or "main"
          tpc,       \* position of the ticker thread
          pc,        \* position of the main thread inside get_date_time
          time_a,    \* Option<(u8,u8,u16,u8,u8)> of source A
          time_b,    \* ... of source B
          time_c,    \* ... of source C
          fallback,  \* the local `fallback` of get_date_time (an Option here)
          notices,   \* number of "[Fallback] Using software clock" lines
          fetches,   \* the sources fetched so far, in order
          result     \* the value returned by get_date_time (an Option here)

vars == <<clock, seed, ticks, ready, lock, tpc, pc, time_a, time_b, time_c,
          fallback, notices, fetches, result>>

\* ---- bounds ----
MaxTicks == 2      \* ticks of the background thread in the concurrent model
MaxApply == 2      \* tick() applications in the pure tick model

\* ---- integer widths ----
U8 == 256
U16 == 65536

\* ---- Option ----
None == <<>>
Some(v) == <<v>>
IsSome(o) == Len(o) = 1
Unwrap(o) == o[1]

\* ---- SoftClock ----
SoftClock(s, mi, h, d, mo, y) ==
    [sec |-> s, min |-> mi, hour |-> h, day |-> d, month |-> mo, year |-> y]

\* x += 1 on an unsigned field of the given width: a build with overflow
\* checks panics, a build without them wraps.
AddOne(c, f, width, next, overflow_checks) ==
    IF c[f] + 1 >= width
    THEN IF overflow_checks
         THEN [c |-> c, line |-> "panic"]
         ELSE [c |-> [c EXCEPT ![f] = (c[f] + 1) % width], line |-> next]
    ELSE [c |-> [c EXCEPT ![f] = c[f] + 1], line |-> next]

\* Rollover that leaves out the reset (`self.sec = 0` and the like)
Rollover_NoReset(c, f, overflows, reset, next) ==
    IF overflows
    THEN [c |-> c, line |-> next]
    ELSE [c |-> c, line |-> "done"]

\* if c[f] >= limit { c[f] = reset; <next> } -- otherwise tick() is over.
Rollover(c, f, overflows, reset, next) ==
    IF overflows
    THEN [c |-> [c EXCEPT ![f] = reset], line |-> next]
    ELSE [c |-> c, line |-> "done"]

\* TickStep whose second test is `> 60`
TickStep_SecRollsAt61(c, line, overflow_checks) ==
    CASE line = "l33" -> AddOne(c, "sec", U8, "l34", overflow_checks)
      [] line = "l34" -> Rollover(c, "sec", c.sec > 60, 0, "l36")
      [] line = "l36" -> AddOne(c, "min", U8, "l37", overflow_checks)
      [] line = "l37" -> Rollover(c, "min", c.min >= 60, 0, "l39")
      [] line = "l39" -> AddOne(c, "hour", U8, "l40", overflow_checks)
      [] line = "l40" -> Rollover(c, "hour", c.hour >= 24, 0, "l42")
      [] line = "l42" -> AddOne(c, "day", U8, "l43", overflow_checks)
      [] line = "l43" -> Rollover(c, "day", c.day > 31, 1, "l45")
      [] line = "l45" -> AddOne(c, "month", U8, "l46", overflow_checks)
      [] line = "l46" -> Rollover(c, "month", c.month > 12, 1, "l48")
      [] line = "l48" -> AddOne(c, "year", U16, "done", overflow_checks)

\* TickStep whose day test is `>= 31`
TickStep_DayRollsAt31(c, line, overflow_checks) ==
    CASE line = "l33" -> AddOne(c, "sec", U8, "l34", overflow_checks)
      [] line = "l34" -> Rollover(c, "sec", c.sec >= 60, 0, "l36")
      [] line = "l36" -> AddOne(c, "min", U8, "l37", overflow_checks)
      [] line = "l37" -> Rollover(c, "min", c.min >= 60, 0, "l39")
      [] line = "l39" -> AddOne(c, "hour", U8, "l40", overflow_checks)
      [] line = "l40" -> Rollover(c, "hour", c.hour >= 24, 0, "l42")
      [] line = "l42" -> AddOne(c, "day", U8, "l43", overflow_checks)
      [] line = "l43" -> Rollover(c, "day", c.day >= 31, 1, "l45")
      [] line = "l45" -> AddOne(c, "month", U8, "l46", overflow_checks)
      [] line = "l46" -> Rollover(c, "month", c.month > 12, 1, "l48")
      [] line = "l48" -> AddOne(c, "year", U16, "done", overflow_checks)

\* One statement of SoftClock::tick, named by its source line.
TickStep(c, line, overflow_checks) ==
    CASE line = "l33" -> AddOne(c, "sec", U8, "l34", overflow_checks)
      [] line = "l34" -> Rollover(c, "sec", c.sec >= 60, 0, "l36")
      [] line = "l36" -> AddOne(c, "min", U8, "l37", overflow_checks)
      [] line = "l37" -> Rollover(c, "min", c.min >= 60, 0, "l39")
      [] line = "l39" -> AddOne(c, "hour", U8, "l40", overflow_checks)
      [] line = "l40" -> Rollover(c, "hour", c.hour >= 24, 0, "l42")
      [] line = "l42" -> AddOne(c, "day", U8, "l43", overflow_checks)
      [] line = "l43" -> Rollover(c, "day", c.day > 31, 1, "l45")
      [] line = "l45" -> AddOne(c, "month", U8, "l46", overflow_checks)
      [] line = "l46" -> Rollover(c, "month", c.month > 12, 1, "l48")
      [] line = "l48" -> AddOne(c, "year", U16, "done", overflow_checks)

TickLines == {"l33", "l34", "l36", "l37", "l39", "l40", "l42", "l43",
              "l45", "l46", "l48"}

\* SoftClock::tick run from a line to its end: the clock it leaves and "done",
\* or "panic" when an addition overflowed in a build with overflow checks.
RECURSIVE RunTick(_, _, _)
RunTick(c, line, overflow_checks) ==
    IF line \in {"done", "panic"}
    THEN [c |-> c, line |-> line]
    ELSE LET r == TickStep(c, line, overflow_checks)
         IN  RunTick(r.c, r.line, overflow_checks)

tick(c, overflow_checks) == RunTick(c, "l33", overflow_checks)

\* ---- deviation checking utilities ----

\* vec![a, b, c] after numbers.sort()
SortThree(a, b, c) ==
    LET lo == IF a <= b /\ a <= c THEN a ELSE IF b <= c THEN b ELSE c
        hi == IF a >= b /\ a >= c THEN a ELSE IF b >= c THEN b ELSE c
    IN  <<lo, a + b + c - lo - hi, hi>>

\* check_sequential_low_deviation with `< 10`
check_sequential_low_deviation_Strict(a, b, c) ==
    LET numbers == SortThree(a, b, c)
    IN  (numbers[2] - numbers[1]) < 10 /\ (numbers[3] - numbers[2]) < 10

check_sequential_low_deviation(a, b, c) ==
    LET numbers == SortThree(a, b, c)
    IN  (numbers[2] - numbers[1]) <= 10 /\ (numbers[3] - numbers[2]) <= 10

\* (x as i16 - y as i16).abs()
AbsDiff(x, y) == IF x >= y THEN x - y ELSE y - x

\* ((x as u16 + y as u16) / 2) as u8
PairAverage(x, y) == (((x + y) % U16) \div 2) % U8

\* check_pair_deviation_and_average whose A-C branch averages a and b
check_pair_deviation_and_average_CopyPaste(a, b, c) ==
    IF AbsDiff(a, b) <= 10 THEN Some(PairAverage(a, b))
    ELSE IF AbsDiff(a, c) <= 10 THEN Some(PairAverage(a, b))
    ELSE IF AbsDiff(b, c) <= 10 THEN Some(PairAverage(b, c))
    ELSE None

check_pair_deviation_and_average(a, b, c) ==
    IF AbsDiff(a, b) <= 10 THEN Some(PairAverage(a, b))
    ELSE IF AbsDiff(a, c) <= 10 THEN Some(PairAverage(a, c))
    ELSE IF AbsDiff(b, c) <= 10 THEN Some(PairAverage(b, c))
    ELSE None

\* a.0 == b.0 && b.0 == c.0 && ... && a.3 == b.3 && b.3 == c.3
SameDateHour(a, b, c) ==
    /\ a[1] = b[1] /\ b[1] = c[1]
    /\ a[2] = b[2] /\ b[2] = c[2]
    /\ a[3] = b[3] /\ b[3] = c[3]
    /\ a[4] = b[4] /\ b[4] = c[4]

\* ((a.4 as u16 + b.4 as u16 + c.4 as u16) / 3) as u8
TripleAverage(x, y, z) == (((x + y + z) % U16) \div 3) % U8

\* agree with the pair check tried before the sequential check
agree_PairFirst(a, b, c) ==
    LET pair == check_pair_deviation_and_average(a[5], b[5], c[5])
    IN  IF a = b /\ b = c
        THEN Some(a)
        ELSE IF IsSome(pair)
        THEN Some(<<a[1], a[2], a[3], a[4], Unwrap(pair)>>)
        ELSE IF SameDateHour(a, b, c)
                /\ check_sequential_low_deviation(a[5], b[5], c[5])
        THEN Some(<<a[1], a[2], a[3], a[4], TripleAverage(a[5], b[5], c[5])>>)
        ELSE None

\* The body of the `if let` block of get_date_time for three present samples:
\* Some(v) when it returns v, None when control leaves the block.
agree(a, b, c) ==
    LET pair == check_pair_deviation_and_average(a[5], b[5], c[5])
    IN  IF a = b /\ b = c
        THEN Some(a)
        ELSE IF SameDateHour(a, b, c)
                /\ check_sequential_low_deviation(a[5], b[5], c[5])
        THEN Some(<<a[1], a[2], a[3], a[4], TripleAverage(a[5], b[5], c[5])>>)
        ELSE IF IsSome(pair)
        THEN Some(<<a[1], a[2], a[3], a[4], Unwrap(pair)>>)
        ELSE None

\* reconcile that settles for two equal samples when the third is absent
reconcile_TwoOfThree(ta, tb, tc) ==
    IF IsSome(ta) /\ IsSome(tb) /\ IsSome(tc)
    THEN agree(Unwrap(ta), Unwrap(tb), Unwrap(tc))
    ELSE IF IsSome(ta) /\ IsSome(tb) /\ ta = tb THEN ta
    ELSE None

\* `if let (Some(a), Some(b), Some(c)) = (time_a, time_b, time_c)`: Some(v)
\* when get_date_time returns v from the block, None when it goes on to the
\* fallback.
reconcile(ta, tb, tc) ==
    IF IsSome(ta) /\ IsSome(tb) /\ IsSome(tc)
    THEN agree(Unwrap(ta), Unwrap(tb), Unwrap(tc))
    ELSE None

\* ---- inputs ----

\* Values from_system_time() can store: a second before the year rolls over,
\* two seconds before an hour rolls over, a second before a minute rolls over.
Seeds == { SoftClock(59, 59, 23, 31, 12, 2024),
           SoftClock(58, 59, 10, 15, 6, 2024),
           SoftClock(59, 30, 10, 15, 6, 2024) }

\* (day, month, year, hour) a source can report: one reference value, one that
\* differs from it in the hour only, one that differs in day, month and year.
DateHours == { <<31, 12, 2024, 23>>, <<31, 12, 2024, 22>>, <<1, 1, 2025, 23>> }

\* Minutes a source can report: 0/10 are 10 apart, 10/21 are 11 apart, 21/30
\* have an odd sum, 0/21/50 are pairwise more than 10 apart.
Minutes == {0, 10, 21, 30, 50}

Samples == { <<dh[1], dh[2], dh[3], dh[4], m>> : dh \in DateHours, m \in Minutes }

\* What fetch_time_from_url can return.
FetchResults == {None} \cup { Some(s) : s \in Samples }

\* ---- the ticker thread spawned by ClockHandle::start ----

\* TickerStart that enters the loop without storing the flag
TickerStart_NoStore ==
    /\ tpc = "spawned"
    /\ tpc' = "sleep"
    /\ UNCHANGED <<clock, seed, ticks, ready, lock, pc, time_a, time_b, time_c,
                   fallback, notices, fetches, result>>

\* ready_clone.store(true, Ordering::SeqCst)
TickerStart ==
    /\ tpc = "spawned"
    /\ ready' = TRUE
    /\ tpc' = "sleep"
    /\ UNCHANGED <<clock, seed, ticks, lock, pc, time_a, time_b, time_c,
                   fallback, notices, fetches, result>>

\* thread::sleep(Duration::from_secs(1))
TickerSleep ==
    /\ tpc = "sleep"
    /\ ticks < MaxTicks
    /\ tpc' = "lock"
    /\ UNCHANGED <<clock, seed, ticks, ready, lock, pc, time_a, time_b, time_c,
                   fallback, notices, fetches, result>>

\* let mut locked = clock_clone.lock().unwrap()
TickerLock ==
    /\ tpc = "lock"
    /\ lock = "free"
    /\ lock' = "ticker"
    /\ tpc' = "l33"
    /\ UNCHANGED <<clock, seed, ticks, ready, pc, time_a, time_b, time_c,
                   fallback, notices, fetches, result>>

\* locked.tick(), one statement at a time; the guard is dropped at the end of
\* the loop body, or by the unwinding of a panic (which poisons the mutex).
TickerTick ==
    /\ tpc \in TickLines
    /\ \E overflow_checks \in BOOLEAN :
          LET r == TickStep(clock, tpc, overflow_checks)
          IN  /\ clock' = r.c
              /\ tpc' = IF r.line = "done" THEN "unlock"
                        ELSE IF r.line = "panic" THEN "panicked"
                        ELSE r.line
              /\ lock' = IF r.line = "panic" THEN "free" ELSE lock
    /\ UNCHANGED <<seed, ticks, ready, pc, time_a, time_b, time_c,
                   fallback, notices, fetches, result>>

\* TickerUnlock that keeps the guard alive across the sleep
TickerUnlock_HoldsGuard ==
    /\ tpc = "unlock"
    /\ ticks' = ticks + 1
    /\ tpc' = "sleep"
    /\ UNCHANGED <<clock, seed, ready, lock, pc, time_a, time_b, time_c,
                   fallback, notices, fetches, result>>

\* end of the loop body: `locked` goes out of scope
TickerUnlock ==
    /\ tpc = "unlock"
    /\ lock' = "free"
    /\ ticks' = ticks + 1
    /\ tpc' = "sleep"
    /\ UNCHANGED <<clock, seed, ready, pc, time_a, time_b, time_c,
                   fallback, notices, fetches, result>>

Ticker == TickerStart \/ TickerSleep \/ TickerLock \/ TickerTick \/ TickerUnlock

\* ---- get_date_time on the main thread ----

\* PollReady that does not look at the flag
PollReady_NoCheck ==
    /\ pc = "poll"
    /\ pc' = "fetch_a"
    /\ UNCHANGED <<clock, seed, ticks, ready, lock, tpc, time_a, time_b, time_c,
                   fallback, notices, fetches, result>>

\* PollReady with the test the wrong way round: `while is_ready()`
PollReady_Inverted ==
    /\ pc = "poll"
    /\ pc' = IF ready THEN "wait" ELSE "fetch_a"
    /\ UNCHANGED <<clock, seed, ticks, ready, lock, tpc, time_a, time_b, time_c,
                   fallback, notices, fetches, result>>

\* while !fallback_clock.is_ready()
PollReady ==
    /\ pc = "poll"
    /\ pc' = IF ready THEN "fetch_a" ELSE "wait"
    /\ UNCHANGED <<clock, seed, ticks, ready, lock, tpc, time_a, time_b, time_c,
                   fallback, notices, fetches, result>>

\* thread::sleep(Duration::from_millis(10))
PollSleep ==
    /\ pc = "wait"
    /\ pc' = "poll"
    /\ UNCHANGED <<clock, seed, ticks, ready, lock, tpc, time_a, time_b, time_c,
                   fallback, notices, fetches, result>>

\* FetchA that gives up on the other sources when source A failed
FetchA_ShortCircuit ==
    /\ pc = "fetch_a"
    /\ \E r \in FetchResults :
          /\ time_a' = r
          /\ pc' = IF r = None THEN "reconcile" ELSE "fetch_b"
    /\ fetches' = Append(fetches, "A")
    /\ UNCHANGED <<clock, seed, ticks, ready, lock, tpc, time_b, time_c,
                   fallback, notices, result>>

\* let time_a = fetch_time_from_url(...)
FetchA ==
    /\ pc = "fetch_a"
    /\ \E r \in FetchResults : time_a' = r
    /\ fetches' = Append(fetches, "A")
    /\ pc' = "fetch_b"
    /\ UNCHANGED <<clock, seed, ticks, ready, lock, tpc, time_b, time_c,
                   fallback, notices, result>>

FetchB ==
    /\ pc = "fetch_b"
    /\ \E r \in FetchResults : time_b' = r
    /\ fetches' = Append(fetches, "B")
    /\ pc' = "fetch_c"
    /\ UNCHANGED <<clock, seed, ticks, ready, lock, tpc, time_a, time_c,
                   fallback, notices, result>>

FetchC ==
    /\ pc = "fetch_c"
    /\ \E r \in FetchResults : time_c' = r
    /\ fetches' = Append(fetches, "C")
    /\ pc' = "reconcile"
    /\ UNCHANGED <<clock, seed, ticks, ready, lock, tpc, time_a, time_b,
                   fallback, notices, result>>

\* Reconcile whose block never returns: control always reaches the fallback
Reconcile_FallsThrough ==
    /\ pc = "reconcile"
    /\ pc' = "get_time"
    /\ UNCHANGED <<clock, seed, ticks, ready, lock, tpc, time_a, time_b, time_c,
                   fallback, notices, fetches, result>>

\* the `if let` block: return a reconciled value or fall through
Reconcile ==
    /\ pc = "reconcile"
    /\ LET r == reconcile(time_a, time_b, time_c)
       IN  IF IsSome(r)
           THEN result' = r /\ pc' = "done"
           ELSE result' = result /\ pc' = "get_time"
    /\ UNCHANGED <<clock, seed, ticks, ready, lock, tpc, time_a, time_b, time_c,
                   fallback, notices, fetches>>

\* GetTimeLock that does not wait for the mutex
GetTimeLock_NoMutex ==
    /\ pc = "get_time"
    /\ IF tpc = "panicked"
       THEN pc' = "panicked" /\ lock' = lock
       ELSE pc' = "clone" /\ lock' = "main"
    /\ UNCHANGED <<clock, seed, ticks, ready, tpc, time_a, time_b, time_c,
                   fallback, notices, fetches, result>>

\* get_time: self.clock.lock().unwrap() -- blocks while the ticker holds the
\* mutex, panics when the mutex is poisoned
GetTimeLock ==
    /\ pc = "get_time"
    /\ lock = "free"
    /\ IF tpc = "panicked"
       THEN pc' = "panicked" /\ lock' = lock
       ELSE pc' = "clone" /\ lock' = "main"
    /\ UNCHANGED <<clock, seed, ticks, ready, tpc, time_a, time_b, time_c,
                   fallback, notices, fetches, result>>

\* GetTimeClone that hands out the value the clock was seeded with
GetTimeClone_Stale ==
    /\ pc = "clone"
    /\ fallback' = Some(seed)
    /\ lock' = "free"
    /\ pc' = "println"
    /\ UNCHANGED <<clock, seed, ticks, ready, tpc, time_a, time_b, time_c,
                   notices, fetches, result>>

\* GetTimeClone that advances the clock it reads
GetTimeClone_Ticks ==
    /\ pc = "clone"
    /\ clock' = tick(clock, FALSE).c
    /\ fallback' = Some(clock')
    /\ lock' = "free"
    /\ pc' = "println"
    /\ UNCHANGED <<seed, ticks, ready, tpc, time_a, time_b, time_c,
                   notices, fetches, result>>

\* get_time: .clone(), then the temporary guard is dropped
GetTimeClone ==
    /\ pc = "clone"
    /\ fallback' = Some(clock)
    /\ lock' = "free"
    /\ pc' = "println"
    /\ UNCHANGED <<clock, seed, ticks, ready, tpc, time_a, time_b, time_c,
                   notices, fetches, result>>

\* FallbackNotice that prints nothing
FallbackNotice_Silent ==
    /\ pc = "println"
    /\ pc' = "return"
    /\ UNCHANGED <<clock, seed, ticks, ready, lock, tpc, time_a, time_b, time_c,
                   fallback, notices, fetches, result>>

\* println!("[Fallback] Using software clock")
FallbackNotice ==
    /\ pc = "println"
    /\ notices' = notices + 1
    /\ pc' = "return"
    /\ UNCHANGED <<clock, seed, ticks, ready, lock, tpc, time_a, time_b, time_c,
                   fallback, fetches, result>>

\* (fallback.day, fallback.month, fallback.year, fallback.hour, fallback.min)
FallbackReturn ==
    /\ pc = "return"
    /\ LET f == Unwrap(fallback)
       IN  result' = Some(<<f.day, f.month, f.year, f.hour, f.min>>)
    /\ pc' = "done"
    /\ UNCHANGED <<clock, seed, ticks, ready, lock, tpc, time_a, time_b, time_c,
                   fallback, notices, fetches>>

GetDateTime ==
    \/ PollReady \/ PollSleep \/ FetchA \/ FetchB \/ FetchC \/ Reconcile
    \/ GetTimeLock \/ GetTimeClone \/ FallbackNotice \/ FallbackReturn

\* ---- the program: main() after ClockHandle::start() has returned ----

Init ==
    /\ seed \in Seeds
    /\ clock = seed
    /\ ticks = 0
    /\ ready = FALSE
    /\ lock = "free"
    /\ tpc = "spawned"
    /\ pc = "poll"
    /\ time_a = None
    /\ time_b = None
    /\ time_c = None
    /\ fallback = None
    /\ notices = 0
    /\ fetches = <<>>
    /\ result = None

Next == Ticker \/ GetDateTime

Spec == Init /\ [][Next]_vars

\* ---- SoftClock::tick on its own, applied to a range of values ----

TickInputs ==
    { SoftClock(s, mi, h, d, mo, y) :
        s \in {0, 30, 58, 59}, mi \in {0, 30, 58, 59}, h \in {0, 12, 22, 23},
        d \in {1, 15, 30, 31}, mo \in {1, 6, 11, 12}, y \in {2024, 65534, 65535} }

InitTick ==
    /\ seed \in TickInputs
    /\ clock = seed
    /\ ticks = 0
    /\ ready = FALSE
    /\ lock = "free"
    /\ tpc = "pure"
    /\ pc = "none"
    /\ time_a = None
    /\ time_b = None
    /\ time_c = None
    /\ fallback = None
    /\ notices = 0
    /\ fetches = <<>>
    /\ result = None

\* clock.tick()
ApplyTick ==
    /\ tpc = "pure"
    /\ ticks < MaxApply
    /\ \E overflow_checks \in BOOLEAN :
          LET r == tick(clock, overflow_checks)
          IN  /\ clock' = r.c
              /\ tpc' = IF r.line = "panic" THEN "panicked" ELSE tpc
              /\ ticks' = IF r.line = "panic" THEN ticks ELSE ticks + 1
    /\ UNCHANGED <<seed, ready, lock, pc, time_a, time_b, time_c,
                   fallback, notices, fetches, result>>

NextTick == ApplyTick

SpecTick == InitTick /\ [][NextTick]_vars

\* ---- the reconciliation of get_date_time over every triple of minutes ----

MaxMinute == 59

\* The samples of one triple: the three sources report the same date and hour
\* and any three minutes.
RecSamples == { Some(<<31, 12, 2024, 23, m>>) : m \in 0..MaxMinute }

InitRec ==
    /\ seed = SoftClock(59, 30, 10, 15, 6, 2024)
    /\ clock = seed
    /\ ticks = 0
    /\ ready = TRUE
    /\ lock = "free"
    /\ tpc = "sleep"
    /\ pc = "reconcile"
    /\ time_a \in RecSamples
    /\ time_b \in RecSamples
    /\ time_c \in RecSamples
    /\ fallback = None
    /\ notices = 0
    /\ fetches = <<"A", "B", "C">>
    /\ result = None

NextRec ==
    Reconcile \/ GetTimeLock \/ GetTimeClone \/ FallbackNotice \/ FallbackReturn

SpecRec == InitRec /\ [][NextRec]_vars

\* ---- vocabulary of the properties ----

AllPresent == Len(time_a) = 1 /\ Len(time_b) = 1 /\ Len(time_c) = 1

MinuteA == time_a[1][5]
MinuteB == time_b[1][5]
MinuteC == time_c[1][5]

DateHourOf(o) == <<o[1][1], o[1][2], o[1][3], o[1][4]>>

\* day, month, year and hour are the same in the three samples
DateHoursAgree ==
    Cardinality({DateHourOf(time_a), DateHourOf(time_b), DateHourOf(time_c)}) = 1

Returned == pc = "done"

\* the returned tuple is the one read from the software clock
ReturnedSnapshot ==
    /\ Returned
    /\ Len(fallback) = 1
    /\ result = << <<fallback[1].day, fallback[1].month, fallback[1].year,
                     fallback[1].hour, fallback[1].min>> >>

\* the returned tuple carries the date and hour of sample A and the minute m
ReturnedRemote(m) ==
    /\ Returned
    /\ fallback = <<>>
    /\ result = << <<time_a[1][1], time_a[1][2], time_a[1][3], time_a[1][4], m>> >>

\* ---- C1 ----
\* C1: whenever the three samples are present and do not all carry the same
\* day, month, year and hour, get_date_time returns the software clock's
\* snapshot, whatever the minutes are.
C1_DisagreementFallsBack ==
    (Returned /\ AllPresent /\ ~DateHoursAgree) => ReturnedSnapshot

\* ---- C2 ----
\* C2: whenever at least one of the three fetches produced no sample,
\* get_date_time returns the tuple of the software clock's snapshot.
C2_AbsentSampleFallsBack ==
    (Returned /\ ~AllPresent) => ReturnedSnapshot

C2_Witness ==
    /\ ReturnedSnapshot
    /\ time_a # <<>> /\ time_b = time_a /\ time_c = <<>>
    /\ ticks >= 1

\* ---- C3 ----
\* C3: when the three samples are present and equal in all five fields,
\* get_date_time returns that tuple, nothing is read from the software clock
\* and no notice is printed, in every state of the clock and after any number
\* of ticks.
C3_ExactMatchReturned ==
    (Returned /\ AllPresent /\ time_a = time_b /\ time_b = time_c)
        => (result = time_a /\ fallback = <<>> /\ notices = 0)

C3_Witness ==
    /\ Returned /\ AllPresent /\ time_a = time_b /\ time_b = time_c
    /\ result = time_a
    /\ ticks >= 1 /\ clock # seed

\* the three minutes in nondecreasing order, as <<smallest, middle, largest>>
SortedMinutes ==
    CHOOSE p \in { <<MinuteA, MinuteB, MinuteC>>, <<MinuteA, MinuteC, MinuteB>>,
                   <<MinuteB, MinuteA, MinuteC>>, <<MinuteB, MinuteC, MinuteA>>,
                   <<MinuteC, MinuteA, MinuteB>>, <<MinuteC, MinuteB, MinuteA>> } :
        p[1] <= p[2] /\ p[2] <= p[3]

LowGap == SortedMinutes[2] - SortedMinutes[1]
HighGap == SortedMinutes[3] - SortedMinutes[2]

\* |x - y|
Distance(x, y) == CHOOSE d \in 0..U8 : x + d = y \/ y + d = x

\* ---- C4 ----
\* C4: when the three samples are present, agree on day, month, year and hour,
\* are not all identical, and both gaps between the sorted minutes are at most
\* 10, get_date_time returns the shared date and hour with the minute
\* floor((ma + mb + mc) / 3), also when the pair A-B qualifies on its own.
C4_ThreeWayMean ==
    (/\ Returned /\ AllPresent /\ DateHoursAgree
     /\ ~(time_a = time_b /\ time_b = time_c)
     /\ LowGap <= 10 /\ HighGap <= 10)
        => ReturnedRemote((MinuteA + MinuteB + MinuteC) \div 3)

C4_Witness ==
    /\ AllPresent /\ DateHoursAgree
    /\ MinuteA = 0 /\ MinuteB = 10 /\ MinuteC = 19
    /\ ReturnedRemote(9)

\* ---- C5 ----
\* C5: when the three samples are present, agree on day, month, year and hour
\* and some gap between the sorted minutes exceeds 10, the result carries the
\* shared date and hour and the floored mean of the first of the pairs A-B,
\* A-C, B-C whose minutes differ by at most 10; when no pair does, the result
\* is the software clock's snapshot.
C5_FirstQualifyingPair ==
    (/\ Returned /\ AllPresent /\ DateHoursAgree
     /\ (LowGap > 10 \/ HighGap > 10))
        => IF Distance(MinuteA, MinuteB) <= 10
           THEN ReturnedRemote((MinuteA + MinuteB) \div 2)
           ELSE IF Distance(MinuteA, MinuteC) <= 10
           THEN ReturnedRemote((MinuteA + MinuteC) \div 2)
           ELSE IF Distance(MinuteB, MinuteC) <= 10
           THEN ReturnedRemote((MinuteB + MinuteC) \div 2)
           ELSE ReturnedSnapshot

C5_Witness ==
    /\ AllPresent /\ DateHoursAgree
    /\ MinuteA = 5 /\ MinuteB = 50 /\ MinuteC = 8
    /\ ReturnedRemote(6)

\* ---- C6 ----
\* C6: the tolerance is inclusive at 10 and exclusive at 11 in both checks.
\* With samples that agree on date and hour: sorted gaps of at most 10, one of
\* them exactly 10, give the three-way mean; a sorted gap of exactly 11 never
\* does, it leaves the mean of the other adjacent pair when that pair is at
\* most 10 apart and the snapshot otherwise; a sorted gap of exactly 10 beside
\* a gap above 10 gives the mean of the pair that is 10 apart.
C6_ToleranceBoundary ==
    (Returned /\ AllPresent /\ DateHoursAgree) =>
        LET lo == SortedMinutes[1]
            mid == SortedMinutes[2]
            hi == SortedMinutes[3]
        IN  /\ (LowGap <= 10 /\ HighGap <= 10 /\ (LowGap = 10 \/ HighGap = 10))
                  => ReturnedRemote((lo + mid + hi) \div 3)
            /\ (LowGap = 11 /\ HighGap <= 10) => ReturnedRemote((mid + hi) \div 2)
            /\ (HighGap = 11 /\ LowGap <= 10) => ReturnedRemote((lo + mid) \div 2)
            /\ (LowGap = 11 /\ HighGap > 10) => ReturnedSnapshot
            /\ (HighGap = 11 /\ LowGap > 10) => ReturnedSnapshot
            /\ (LowGap = 10 /\ HighGap > 10) => ReturnedRemote((lo + mid) \div 2)
            /\ (HighGap = 10 /\ LowGap > 10) => ReturnedRemote((mid + hi) \div 2)

C6_Witness ==
    /\ AllPresent /\ DateHoursAgree
    /\ MinuteA = 49 /\ MinuteB = 59 /\ MinuteC = 38
    /\ ReturnedRemote(54)

\* ---- C7 ----
\* C7: the fallback notice is printed if and only if the returned value was
\* taken from the software clock's snapshot: a run that returns a reconciled
\* value has printed none, a run that returns the snapshot has printed exactly
\* one, and it printed it before returning.
C7_NoticeIffFallback ==
    /\ notices \in {0, 1}
    /\ Returned =>
          \/ ReturnedSnapshot /\ notices = 1
          \/ AllPresent /\ ReturnedRemote(result[1][5]) /\ notices = 0
    /\ ~Returned => (notices = 1 <=> pc = "return")

C7_Witness ==
    /\ ReturnedSnapshot /\ notices = 1
    /\ AllPresent /\ DateHoursAgree

\* ---- C8 ----
\* k complete applications of tick()
RECURSIVE Advance(_, _)
Advance(c, k) == IF k = 0 THEN c ELSE Advance(tick(c, FALSE).c, k - 1)

\* C8: under every interleaving with the ticker, a snapshot is the seeded
\* clock advanced by a whole number of complete ticks: a partially cascaded
\* tick is never seen.
C8_SnapshotWholeTicks ==
    Len(fallback) = 1 => \E k \in 0..ticks : fallback[1] = Advance(seed, k)

C8_Witness ==
    /\ Len(fallback) = 1
    /\ seed = SoftClock(59, 59, 23, 31, 12, 2024)
    /\ fallback[1] = SoftClock(0, 0, 0, 1, 1, 2025)
    /\ tpc \in TickLines

\* ---- C9 ----
\* C9: no fetch is started while the readiness flag is false: once
\* get_date_time has left its polling loop, and whenever a source has been
\* fetched, the flag is true.
C9_NoFetchBeforeReady ==
    (fetches # <<>> \/ pc \notin {"poll", "wait"}) => ready

C9_Witness ==
    /\ fetches = <<"A">> /\ pc = "fetch_b"
    /\ ready /\ ticks = 0

\* ---- C10 ----
\* the cascade of section 4.1, field by field
RefCascade(c) ==
    LET secRolls == c.sec + 1 = 60
        minRolls == secRolls /\ c.min + 1 = 60
        hourRolls == minRolls /\ c.hour + 1 = 24
        dayRolls == hourRolls /\ c.day + 1 > 31
        monthRolls == dayRolls /\ c.month + 1 > 12
    IN  [sec |-> IF secRolls THEN 0 ELSE c.sec + 1,
         min |-> IF minRolls THEN 0 ELSE IF secRolls THEN c.min + 1 ELSE c.min,
         hour |-> IF hourRolls THEN 0 ELSE IF minRolls THEN c.hour + 1 ELSE c.hour,
         day |-> IF dayRolls THEN 1 ELSE IF hourRolls THEN c.day + 1 ELSE c.day,
         month |-> IF monthRolls THEN 1 ELSE IF dayRolls THEN c.month + 1 ELSE c.month,
         year |-> IF monthRolls THEN c.year + 1 ELSE c.year]

RECURSIVE RefAdvance(_, _)
RefAdvance(c, k) == IF k = 0 THEN c ELSE RefAdvance(RefCascade(c), k - 1)

TicksPerMinute == 60
TicksPerDay == 24 * 60 * 60

MinuteInputs ==
    { SoftClock(s, mi, h, d, mo, y) :
        s \in {0, 30, 59}, mi \in {0, 30, 58, 59}, h \in {0, 23},
        d \in {1, 31}, mo \in {1, 12}, y \in {2024, 65535} }

InitMinute ==
    /\ seed \in MinuteInputs
    /\ clock = seed
    /\ ticks = 0
    /\ ready = FALSE
    /\ lock = "free"
    /\ tpc = "minute"
    /\ pc = "none"
    /\ time_a = None
    /\ time_b = None
    /\ time_c = None
    /\ fallback = None
    /\ notices = 0
    /\ fetches = <<>>
    /\ result = None

\* clock.tick(), again and again: 60 times in a run over a minute, 86,400
\* times in a run over a day
RepeatTick ==
    /\ tpc \in {"minute", "day"}
    /\ ticks < (IF tpc = "minute" THEN TicksPerMinute ELSE TicksPerDay)
    /\ \E overflow_checks \in BOOLEAN :
          LET r == tick(clock, overflow_checks)
          IN  /\ clock' = r.c
              /\ tpc' = IF r.line = "panic" THEN "panicked" ELSE tpc
              /\ ticks' = IF r.line = "panic" THEN ticks ELSE ticks + 1
    /\ UNCHANGED <<seed, ready, lock, pc, time_a, time_b, time_c,
                   fallback, notices, fetches, result>>

NextRepeat == RepeatTick

SpecMinute == InitMinute /\ [][NextRepeat]_vars

\* ---- C11 ----
\* C11: from every start value with minute < 59, 60 applications of tick()
\* complete and leave second, hour, day, month and year as they were and the
\* minute one higher.
C11_SixtyTicksOneMinute ==
    seed.min < 59 =>
        /\ tpc # "panicked"
        /\ (tpc = "minute" /\ ticks = TicksPerMinute)
              => clock = [seed EXCEPT !.min = seed.min + 1]

C11_Witness ==
    /\ tpc = "minute" /\ ticks = TicksPerMinute
    /\ seed = SoftClock(30, 58, 23, 31, 12, 65535)
    /\ clock = SoftClock(30, 59, 23, 31, 12, 65535)

\* Start values of a run over a day: mid-month, the last second of a year, day
\* 30 and day 31 of months that have fewer days, the last day of the years
\* 65534 and 65535.
DayInputs ==
    { SoftClock(0, 0, 0, 15, 6, 2024),
      SoftClock(59, 59, 23, 31, 12, 2024),
      SoftClock(30, 30, 12, 30, 2, 2024),
      SoftClock(30, 30, 12, 31, 4, 2024),
      SoftClock(0, 0, 0, 31, 12, 65534),
      SoftClock(0, 0, 0, 31, 12, 65535) }

InitDay ==
    /\ seed \in DayInputs
    /\ clock = seed
    /\ ticks = 0
    /\ ready = FALSE
    /\ lock = "free"
    /\ tpc = "day"
    /\ pc = "none"
    /\ time_a = None
    /\ time_b = None
    /\ time_c = None
    /\ fallback = None
    /\ notices = 0
    /\ fetches = <<>>
    /\ result = None

SpecDay == InitDay /\ [][NextRepeat]_vars

\* ---- C12 ----
\* the day after c under the rule that every month has 31 days
NextDay(c) ==
    IF c.day < 31 THEN [c EXCEPT !.day = c.day + 1]
    ELSE IF c.month < 12 THEN [c EXCEPT !.day = 1, !.month = c.month + 1]
    ELSE [c EXCEPT !.day = 1, !.month = 1, !.year = c.year + 1]

C13_FetchedOnceInOrder ==
    fetches = CASE pc \in {"poll", "wait", "fetch_a"} -> <<>>
                [] pc = "fetch_b" -> <<"A">>
                [] pc = "fetch_c" -> <<"A", "B">>
                [] OTHER -> <<"A", "B", "C">>

C13_Witness ==
    /\ Returned
    /\ time_a = <<>> /\ time_b # <<>> /\ time_c = <<>>
    /\ fetches = <<"A", "B", "C">>

\* ---- C14 ----
\* C14: from every value in the nominal ranges, with any 16-bit year, tick()
\* completes and no field overflows: it never panics and the year never wraps
\* around to a smaller value.
C14_TickNeverOverflows ==
    /\ tpc # "panicked"
    /\ tpc = "pure" => clock.year >= seed.year

\* ---- C15 ----
\* C15: the readiness flag starts false, is set by the first step of the
\* background task and by nothing else, before its first sleep and before any
\* tick, and is never cleared; while it is false the clock still holds the
\* seed and no tick has been applied.
C15_ReadySetOnceFirst ==
    /\ ready = FALSE
    /\ [](ready <=> tpc # "spawned")
    /\ [](~ready => (ticks = 0 /\ clock = seed /\ lock = "free"))
    /\ [][/\ ready => ready'
          /\ ready' # ready => (tpc = "spawned" /\ tpc' = "sleep")]_vars

C15_Witness ==
    /\ ready /\ tpc = "sleep" /\ ticks = 0 /\ clock = seed
    /\ pc = "wait"

\* ---- the program under fair scheduling ----

\* Both threads are scheduled: each takes its next step when it can. A thread
\* blocked in lock() gets the mutex, because the ticker releases it after
\* every tick and then sleeps for a second.
\* The runs start from the seed whose first tick is the longest one.
InitFair == Init /\ seed = SoftClock(59, 59, 23, 31, 12, 2024)

SpecFair ==
    /\ InitFair /\ [][Next]_vars
    /\ WF_vars(Ticker) /\ WF_vars(GetDateTime) /\ SF_vars(GetTimeLock)

\* ---- C16 ----
\* C16: under fair scheduling, with every fetch returning, get_date_time
\* returns: the polling loop ends and the call does not hang, whatever the
\* sources answer.
C16_EventuallyReturns == <>(pc = "done")

C16_Witness ==
    /\ Returned /\ ReturnedSnapshot
    /\ time_a = <<>> /\ time_b = <<>> /\ time_c = <<>>

\* ---- C17 ----
InTick == tpc \in TickLines \cup {"unlock"}

\* C17: the mutex is held by the ticker exactly while it runs one tick() and
\* by the main thread exactly while it copies the snapshot, never by both and
\* never across the ticker's sleep; whoever takes it gives it back, and a
\* thread waiting for the snapshot gets it.
C17_LockDiscipline ==
    /\ [](lock = "ticker" <=> InTick)
    /\ [](lock = "main" <=> pc = "clone")
    /\ [](~(InTick /\ pc = "clone"))
    /\ [][(lock = "ticker" /\ lock' # "ticker")
             => (ticks' = ticks + 1 /\ clock' = Advance(seed, ticks'))]_vars
    /\ (lock # "free") ~> (lock = "free")
    /\ (pc = "get_time") ~> (pc = "println")

C17_Witness ==
    /\ pc = "get_time" /\ lock = "ticker" /\ tpc \in TickLines

\* ---- C18 ----
\* C18: the shared clock is changed by the ticker's tick() and by nothing
\* else: every step that changes it is a statement of tick() run by the ticker
\* under the mutex, no step of get_date_time changes it, the ticks are counted
\* one at a time, and whenever the ticker is not inside tick() the clock is
\* the seed advanced by exactly the ticks counted.
C18_OnlyTickAdvancesClock ==
    /\ [](lock # "ticker" => clock = Advance(seed, ticks))
    /\ [][clock' # clock
             => (/\ tpc \in TickLines /\ lock = "ticker"
                 /\ UNCHANGED <<pc, time_a, time_b, time_c, fallback, notices,
                                fetches, result, ready, seed>>)]_vars
    /\ [][pc' # pc => clock' = clock]_vars
    /\ [][ticks' # ticks => ticks' = ticks + 1]_vars

C18_Witness ==
    /\ ReturnedSnapshot
    /\ ticks >= 2 /\ clock # seed /\ clock = Advance(seed, ticks)

\* ---- C19 ----
InRange(c) ==
    /\ c.sec \in 0..59 /\ c.min \in 0..59 /\ c.hour \in 0..23
    /\ c.day \in 1..31 /\ c.month \in 1..12

\* C19: with a seed in the nominal ranges, the clock is in the nominal ranges
\* whenever the ticker is not inside tick(), and so is every snapshot and
\* every fallback result: 60, 24, 32 and 13 are never seen.
C19_RangesKept ==
    /\ lock # "ticker" => InRange(clock)
    /\ Len(fallback) = 1 => InRange(fallback[1])
    /\ ReturnedSnapshot =>
          /\ result[1][1] \in 1..31 /\ result[1][2] \in 1..12
          /\ result[1][4] \in 0..23 /\ result[1][5] \in 0..59

C19_Witness ==
    /\ ReturnedSnapshot
    /\ seed = SoftClock(58, 59, 10, 15, 6, 2024)
    /\ result = << <<15, 6, 2024, 11, 0>> >>

\* ---- C20 ----
\* C20: on the fallback path the snapshot is taken after the three fetches:
\* nothing has been read from the clock before the copy in get_time, and the
\* step that reads it comes after the fetch of source C and reads the seed
\* advanced by every tick applied up to that step.
C20_SnapshotAfterFetches ==
    /\ [](pc \in {"poll", "wait", "fetch_a", "fetch_b", "fetch_c", "reconcile",
                  "get_time", "clone"} => fallback = <<>>)
    /\ [][fallback' # fallback
             => (/\ fetches = <<"A", "B", "C">> /\ pc = "clone"
                 /\ fallback' = <<Advance(seed, ticks)>>)]_vars

C20_Witness ==
    /\ pc = "println" /\ fetches = <<"A", "B", "C">>
    /\ Len(fallback) = 1
    /\ ticks = 2 /\ fallback[1] = Advance(seed, 2) /\ fallback[1] # seed

====
